---- MODULE Spec2Model ----
(***************************************************************************)
(* A model of populate_po.py: the CSV-to-payload transformation            *)
(* (clean_numeric, process_line_item, create_payload), the ERP calls it    *)
(* makes (find_po, item_exists, create_inventory_item, the final PUT) and  *)
(* the upload_file endpoint that drives them.                              *)
(*                                                                         *)
(* Python values are modelled as follows.                                  *)
(*   str        a sequence of one-character strings                        *)
(*   None       the empty tuple None; an optional value v is <<v>>         *)
(*   float      an exact decimal, kept as the integer value * 10^Places    *)
(*              (binary rounding of floats is not modelled)                *)
(*   dict       a function; a key that is not inserted is not in DOMAIN    *)
(*   exception  a record with the exception's type and its arguments       *)
(***************************************************************************)
EXTENDS Integers, Sequences, FiniteSets, TLC

VARIABLES
    entry,            \* the function of the module that was invoked
    pc,               \* the position of the invocation
    po_number,        \* upload_file: the po_number form field
    filename,         \* upload_file: file.filename
    create_inventory, \* the create_inventory flag
    file,             \* the CSV as csv.reader yields it: [empty, headers, lines]
    erp,              \* the ERP's answers: the parts it reports, its status for a creation
    po,               \* upload_file: what find_po returned
    headers_map,      \* create_payload: header.upper() -> column index
    lineno,           \* create_payload: the number of data lines consumed
    line,             \* the row handed to process_line_item
    items,            \* create_payload: base_payload["items"]
    calls,            \* the HTTP requests sent to the ERP, in order
    raised,           \* the exception that left the invocation, if any
    returned,         \* the value the invocation returned, if any
    value             \* clean_numeric: its argument

vars == <<entry, pc, po_number, filename, create_inventory, file, erp, po,
          headers_map, lineno, line, items, calls, raised, returned, value>>

\* ------------------------------------------------------------------ bounds

\* The longest raw string handed to clean_numeric.
MaxLen == 4
\* The most data lines of an uploaded CSV.
MaxLines == 2
\* The most cells of a row handed to process_line_item on its own.
MaxCols == 4

\* The decimal places kept of a float: a string of MaxLen characters with a
\* point has fewer digits after it.
Places == MaxLen - 1

\* ----------------------------------------------------------------- strings

None == <<>>
Some(v) == <<v>>

\* Python truthiness of a str, a list or None: empty and None are false.
Truthy(v) == v # <<>>

DigitVal == [c \in {"0", "1", "2", "3", "4", "5", "6", "7", "8", "9"} |->
               CASE c = "0" -> 0 [] c = "1" -> 1 [] c = "2" -> 2 [] c = "3" -> 3
                 [] c = "4" -> 4 [] c = "5" -> 5 [] c = "6" -> 6 [] c = "7" -> 7
                 [] c = "8" -> 8 [] c = "9" -> 9]

IsDigit(c) == c \in DOMAIN DigitVal

IsSpace(c) == c = " "

RECURSIVE Pow10(_)
Pow10(n) == IF n <= 0 THEN 1 ELSE 10 * Pow10(n - 1)

\* str.strip(): leading and trailing whitespace removed.
RECURSIVE lstrip(_)
lstrip(s) == IF s # <<>> /\ IsSpace(Head(s)) THEN lstrip(Tail(s)) ELSE s

RECURSIVE rstrip(_)
rstrip(s) ==
    IF s # <<>> /\ IsSpace(s[Len(s)]) THEN rstrip(SubSeq(s, 1, Len(s) - 1)) ELSE s

strip(s) == rstrip(lstrip(s))

\* str.upper() on the letters the model's strings use.
UpperChar(c) ==
    CASE c = "a" -> "A" [] c = "c" -> "C" [] c = "d" -> "D" [] c = "e" -> "E"
      [] c = "i" -> "I" [] c = "n" -> "N" [] c = "o" -> "O" [] c = "p" -> "P"
      [] c = "q" -> "Q" [] c = "r" -> "R" [] c = "s" -> "S" [] c = "t" -> "T"
      [] c = "u" -> "U" [] c = "y" -> "Y" [] OTHER -> c

upper(s) == [i \in 1..Len(s) |-> UpperChar(s[i])]

\* ---------------------------------------------------------- clean_numeric

\* re.sub(r'[^\d.]', '', value): every character but digits and points removed.
re_sub_non_numeric(s) == SelectSeq(s, LAMBDA c : IsDigit(c) \/ c = ".")

NumDots(s) == Cardinality({i \in 1..Len(s) : s[i] = "."})

\* float(s) for s of digits and points only: ValueError unless s holds one
\* point at most and a digit.
float_raises(s) == NumDots(s) > 1 \/ ~ \E i \in 1..Len(s) : IsDigit(s[i])

RECURSIVE DigitsValue(_)
DigitsValue(s) ==
    IF s = <<>> THEN 0
    ELSE 10 * DigitsValue(SubSeq(s, 1, Len(s) - 1)) + DigitVal[s[Len(s)]]

\* The digits read as one integer, shifted by the digits after the point.
float(s) ==
    LET dot  == IF NumDots(s) = 0 THEN Len(s) + 1
                ELSE CHOOSE i \in 1..Len(s) : s[i] = "."
        frac == IF NumDots(s) = 0 THEN 0 ELSE Len(s) - dot
    IN  DigitsValue(SelectSeq(s, IsDigit)) * Pow10(Places - frac)

\* clean_numeric without its try/except: the ValueError of float() escapes.
clean_numeric_uncaught(v) ==
    IF ~ (Truthy(v) /\ Truthy(v[1])) THEN [raised |-> None, value |-> None]
    ELSE LET cleaned == re_sub_non_numeric(v[1])
         IN  IF ~ Truthy(cleaned) THEN [raised |-> None, value |-> None]
             ELSE IF float_raises(cleaned)
                  THEN [raised |-> Some("ValueError"), value |-> None]
                  ELSE [raised |-> None, value |-> Some(float(cleaned))]

\* clean_numeric(value), value an optional str (None, or <<s>>; a str that is
\* empty is as false as None).  The outcome: what it raised, what it returned.
clean_numeric(v) ==
    IF ~ (Truthy(v) /\ Truthy(v[1])) THEN [raised |-> None, value |-> None]
    ELSE LET cleaned == re_sub_non_numeric(v[1])
         IN  IF ~ Truthy(cleaned) THEN [raised |-> None, value |-> None]
             ELSE IF float_raises(cleaned)
                  THEN [raised |-> None, value |-> None]
                  ELSE [raised |-> None, value |-> Some(float(cleaned))]

\* --------------------------------------------------------------- the CSV

PART_NO     == <<"P", "A", "R", "T", " ", "N", "O">>
ORDER_QTY   == <<"O", "R", "D", "E", "R", " ", "Q", "T", "Y">>
UNIT_PRICE  == <<"U", "N", "I", "T", " ", "P", "R", "I", "C", "E">>
DESCRIPTION == <<"D", "E", "S", "C", "R", "I", "P", "T", "I", "O", "N">>

required_headers == {PART_NO, ORDER_QTY}

\* {header.upper(): i for i, header in enumerate(headers)}: of two columns
\* with one name the later one stays.  Columns are counted from 1 here.
build_headers_map(headers) ==
    [h \in {upper(headers[i]) : i \in 1..Len(headers)} |->
        CHOOSE i \in 1..Len(headers) :
            /\ upper(headers[i]) = h
            /\ \A j \in 1..Len(headers) : upper(headers[j]) = h => j <= i]

\* any() taken over the trimmed cells: a line of whitespace cells is skipped too.
any_stripped(ln) == \E i \in 1..Len(ln) : Truthy(strip(ln[i]))

\* any(line) is false when the line has no cell or every cell is the empty str.
any(ln) == \E i \in 1..Len(ln) : Truthy(ln[i])

\* ------------------------------------------------------------ exceptions

Exception(type, args) == [type |-> type, args |-> args]

HTTPException(status_code, detail) ==
    Exception("HTTPException", [status_code |-> status_code, detail |-> detail])

\* A call with a number of positional arguments other than the number of
\* parameters (none of which has a default) raises TypeError before the body runs.
call_raises(nparams, nargs) == nargs # nparams

\* def create_inventory_item(part_no, description, cost)
create_inventory_item_params == 3
\* create_inventory_item(part_no, description, unit_price, vendor_no)
create_inventory_item_args == 4
\* def create_payload(csv_file, required_headers, create_inventory, vendor_no)
create_payload_params == 4
\* create_payload(file, required_headers, create_inventory)
create_payload_args == 3
\* if response.status_code != 201 in create_inventory_item
HTTP_CREATED == 201
\* if response.status_code == 200 in upload_file, != 200 in find_po
HTTP_OK == 200
\* po_number.zfill(10)
PO_NUMBER_WIDTH == 10

\* ------------------------------------------------------------------- ERP

Request(method, resource, body) ==
    [method |-> method, resource |-> resource, body |-> body]

\* item_exists(part_no): a GET filtered on part_no.upper(); true when the
\* answer is 200 with records, which the ERP gives for the parts it holds.
item_exists(part_no, e) ==
    [calls |-> <<Request("GET", "inventory/items", upper(part_no))>>,
     value |-> upper(part_no) \in e.inventory]

\* create_inventory_item(part_no, description, cost): cost/0.55 raises
\* TypeError for a cost of None, before the request; a status other than 201
\* is printed and None returned.  (The sell price, round(cost/0.55, 2), is
\* left out of the request body.)
create_inventory_item(part_no, description, cost, e) ==
    IF cost = None
    THEN [raised |-> Some(Exception("TypeError", "NoneType / float")),
          calls |-> <<>>, value |-> None]
    ELSE [raised |-> None,
          calls |-> <<Request("POST", "inventory/items",
                        [partNo |-> part_no, description |-> description,
                         whse |-> "00", currentCost |-> cost[1]])>>,
          value |-> IF e.post_status # HTTP_CREATED THEN None
                    ELSE Some("response.text")]

\* ------------------------------------------------------ process_line_item

\* The try block, lines 104-116: the exception it raises (None when it
\* completes) and the locals it has bound by then.
line_values(row, hm) ==
    LET cell(h)     == strip(row[hm[h]])
        short(h)    == hm[h] > Len(row)
        has(h)      == h \in DOMAIN hm
        IndexError  == Exception("IndexError", "list index out of range")
        unbound     == [part_no |-> None, raw_qty |-> None, description |-> <<>>,
                        order_qty |-> None, unit_price |-> None]
    IN  IF short(PART_NO) THEN [exc |-> Some(IndexError)] @@ unbound
        ELSE LET part_no == cell(PART_NO) IN
        IF short(ORDER_QTY)
        THEN [exc |-> Some(IndexError), part_no |-> Some(part_no)] @@ unbound
        ELSE LET raw_qty == cell(ORDER_QTY) IN
        IF (has(UNIT_PRICE) /\ short(UNIT_PRICE))
           \/ (has(DESCRIPTION) /\ short(DESCRIPTION))
        THEN [exc |-> Some(IndexError), part_no |-> Some(part_no),
              raw_qty |-> Some(raw_qty)] @@ unbound
        ELSE LET raw_price   == IF has(UNIT_PRICE) THEN Some(cell(UNIT_PRICE))
                                ELSE None
                 description == IF has(DESCRIPTION) THEN cell(DESCRIPTION)
                                ELSE <<>>
                 order_qty   == clean_numeric(Some(raw_qty)).value
                 unit_price  == IF Truthy(raw_price) /\ Truthy(raw_price[1])
                                THEN clean_numeric(raw_price).value ELSE None
             IN  [exc |-> IF order_qty = None
                          THEN Some(Exception("ValueError",
                                   [text |-> "Invalid quantity", raw_qty |-> raw_qty]))
                          ELSE None,
                  part_no |-> Some(part_no), raw_qty |-> Some(raw_qty),
                  description |-> description, order_qty |-> order_qty,
                  unit_price |-> unit_price]

\* if unit_price: a price of None and a price of 0.0 are both false.
price_truthy(unit_price) == unit_price # None /\ unit_price[1] # 0

\* The item dict, lines 132-141.
line_item(part_no, order_qty, unit_price, description) ==
    LET base == [inventory |-> [whse |-> "00", partNo |-> part_no],
                 orderQty |-> order_qty[1]]
        p == IF price_truthy(unit_price) THEN base @@ [unitPrice |-> unit_price[1]]
             ELSE base
    IN  IF Truthy(description) THEN p @@ [description |-> description] ELSE p

\* process_line_item(row, headers_map, create_inventory, vendor_no) against
\* the ERP e.  The outcome: the exception raised, the requests sent, the item.
process_line_item(row, hm, ci, vendor_no, e) ==
    LET v == line_values(row, hm) IN
    IF v.exc # None
    THEN \* except Exception as e: the handler formats part_no
         IF v.part_no = None
         THEN [raised |-> Some(Exception("UnboundLocalError", "part_no")),
               calls |-> <<>>, value |-> None]
         ELSE [raised |-> Some(HTTPException(400,
                    [text |-> "Error geting values for",
                     part_no |-> v.part_no[1], e |-> v.exc[1]])),
               calls |-> <<>>, value |-> None]
    ELSE
    LET part_no == v.part_no[1]
        item    == line_item(part_no, v.order_qty, v.unit_price, v.description)
        exists  == item_exists(part_no, e)
    IN  IF ~ ci THEN [raised |-> None, calls |-> <<>>, value |-> Some(item)]
        ELSE IF exists.value
        THEN [raised |-> None, calls |-> exists.calls, value |-> Some(item)]
        ELSE IF ~ Truthy(v.description)
        THEN \* print("Warning: ... needs a description to be created!")
             [raised |-> None, calls |-> exists.calls, value |-> Some(item)]
        ELSE
        LET created ==
                IF call_raises(create_inventory_item_params, create_inventory_item_args)
                THEN [raised |-> Some(Exception("TypeError", "positional arguments")),
                      calls |-> <<>>, value |-> None]
                ELSE create_inventory_item(part_no, v.description, v.unit_price, e)
        IN  IF created.raised # None
            THEN [raised |-> Some(HTTPException(400,
                       [text |-> "Error creating", part_no |-> part_no,
                        e |-> created.raised[1]])),
                  calls |-> exists.calls \o created.calls, value |-> None]
            ELSE [raised |-> None, calls |-> exists.calls \o created.calls,
                  value |-> Some(item)]

\* ----------------------------------------------------------- create_payload

\* The for loop's body after the skip, lines 162-163, given the outcome r of
\* process_line_item: an exception leaves create_payload, with nothing returned.
loop_body_swallow(its, r) ==
    IF r.raised # None
    THEN [raised |-> None, returned |-> Some([items |-> its]), items |-> its]
    ELSE [raised |-> None, returned |-> None, items |-> Append(its, r.value[1])]

loop_body(its, r) ==
    IF r.raised # None
    THEN [raised |-> r.raised, returned |-> None, items |-> its]
    ELSE [raised |-> None, returned |-> None, items |-> Append(its, r.value[1])]

\* ------------------------------------------------------------ upload_file

\* str.zfill(width) of a string of digits.
RECURSIVE zfill(_, _)
zfill(s, width) == IF Len(s) >= width THEN s ELSE zfill(<<"0">> \o s, width)

\* -------------------------------------------------------------- the inputs

E  == <<>>
SP == <<" ">>
A  == <<"A">>
Z  == <<"0">>
N5 == <<" ", "5">>

Cells == {E, SP, A, Z, N5}

part_no_lower   == <<"p", "a", "r", "t", " ", "n", "o">>
order_qty_lower == <<"o", "r", "d", "e", "r", " ", "q", "t", "y">>

\* Header rows of uploaded files: complete in either order and case, with an
\* optional column, and lacking one or both required columns.
SampleHeaders ==
    { <<PART_NO, ORDER_QTY>>,
      <<ORDER_QTY, PART_NO>>,
      <<part_no_lower, order_qty_lower, DESCRIPTION>>,
      <<PART_NO, ORDER_QTY, UNIT_PRICE>>,
      <<PART_NO>>,
      <<DESCRIPTION>> }

\* Data rows of uploaded files: an empty line, a line of empty cells, a line
\* of whitespace cells, complete rows (one with a third cell, one of zeros),
\* a row without part number, a row without quantity.
SampleLines ==
    { <<>>, <<E, E>>, <<SP, SP>>, <<A, N5>>, <<A, N5, A>>, <<A, Z, Z>>,
      <<E, N5>>, <<A, E>> }

SeqsUpTo(S, n) == UNION {[1..k -> S] : k \in 0..n}

\* The files: a header row and MaxLines lines at most, or nothing at all.
EmptyFile == [empty |-> TRUE, headers |-> <<>>, lines |-> <<>>]

SampleFiles ==
    [empty : {FALSE}, headers : SampleHeaders,
     lines : SeqsUpTo(SampleLines, MaxLines)] \cup {EmptyFile}

\* The ERP answers the existence GET of the parts in inventory with records,
\* and a creation POST with post_status.
ErpStates == [inventory : {{}, {A}}, post_status : {HTTP_CREATED, 400}]

VendorNo == "vendor_no"

\* ------------------------------------------------------------ the actions

Idle ==
    /\ po = None /\ headers_map = <<>> /\ lineno = 0 /\ line = <<>>
    /\ items = <<>> /\ calls = <<>> /\ raised = None /\ returned = None
    /\ value = None

\* POST /upload/ with its form fields.
InitUpload ==
    /\ entry = "upload_file" /\ pc = "validate"
    /\ po_number \in {<<>>, <<"7">>}
    /\ filename \in {<<>>, <<"f">>}
    /\ create_inventory \in BOOLEAN
    /\ file \in SampleFiles
    /\ erp \in ErpStates
    /\ Idle

\* create_payload(csv_file, required_headers, create_inventory, vendor_no).
InitPayload ==
    /\ entry = "create_payload" /\ pc = "headers"
    /\ po_number = <<>> /\ filename = <<"f">>
    /\ create_inventory \in BOOLEAN
    /\ file \in SampleFiles
    /\ erp \in ErpStates
    /\ Idle

Init == InitUpload \/ InitPayload

Raise(exc) == raised' = Some(exc) /\ pc' = "done"

\* upload_file, lines 188-194: the form validation.
upload_file_validate ==
    /\ pc = "validate"
    /\ IF po_number = <<>>
       THEN Raise(HTTPException(422, "PO number is required"))
       ELSE IF ~ Truthy(filename)
       THEN Raise(HTTPException(422, "File is required"))
       ELSE pc' = "find_po" /\ UNCHANGED raised
    /\ UNCHANGED <<entry, po_number, filename, create_inventory, file, erp, po,
                   headers_map, lineno, line, items, calls, returned, value>>

\* upload_file, lines 195-201, with find_po: the GET, answered with a status
\* other than 200, with no record, or with a record.  The print of the first
\* case names po_no, which nothing defines.
upload_file_find_po ==
    /\ pc = "find_po"
    /\ calls' = Append(calls, Request("GET", "purchasing/orders",
                                      zfill(po_number, PO_NUMBER_WIDTH)))
    /\ \E answer \in {"not 200", "no records", "record"} :
         CASE answer = "not 200" ->
                Raise(Exception("NameError", "po_no")) /\ UNCHANGED po
           [] answer = "no records" ->
                Raise(HTTPException(404, "PO not found")) /\ UNCHANGED po
           [] answer = "record" ->
                po' = Some([id |-> 1]) /\ pc' = "create_payload"
                /\ UNCHANGED raised
    /\ UNCHANGED <<entry, po_number, filename, create_inventory, file, erp,
                   headers_map, lineno, line, items, returned, value>>

\* upload_file, line 203: the call of create_payload.
upload_file_create_payload ==
    /\ pc = "create_payload"
    /\ IF call_raises(create_payload_params, create_payload_args)
       THEN Raise(Exception("TypeError", "positional arguments"))
       ELSE pc' = "headers" /\ UNCHANGED raised
    /\ UNCHANGED <<entry, po_number, filename, create_inventory, file, erp, po,
                   headers_map, lineno, line, items, calls, returned, value>>

\* create_payload, lines 150-158: the header row and its validation.  next()
\* raises StopIteration on a file without any row.  The loop over the set
\* required_headers meets the missing headers in no fixed order.
create_payload_headers ==
    /\ pc = "headers"
    /\ LET hm == build_headers_map(file.headers)
           missing == required_headers \ DOMAIN hm
       IN  IF file.empty
           THEN Raise(Exception("StopIteration", "")) /\ UNCHANGED headers_map
           ELSE IF missing # {}
           THEN /\ \E h \in missing :
                     Raise(HTTPException(400,
                               [text |-> "Missing column", header |-> h]))
                /\ UNCHANGED headers_map
           ELSE headers_map' = hm /\ pc' = "lines" /\ UNCHANGED raised
    /\ UNCHANGED <<entry, po_number, filename, create_inventory, file, erp, po,
                   lineno, line, items, calls, returned, value>>

\* create_payload, lines 160-163: one iteration of the loop over the lines.
create_payload_line ==
    /\ pc = "lines" /\ lineno < Len(file.lines)
    /\ lineno' = lineno + 1
    /\ line' = file.lines[lineno + 1]
    /\ IF ~ any(line')
       THEN UNCHANGED <<pc, items, calls, raised, returned>>
       ELSE LET r == process_line_item(line', headers_map, create_inventory,
                                       VendorNo, erp)
                b == loop_body(items, r)
            IN  /\ calls' = calls \o r.calls
                /\ items' = b.items
                /\ raised' = b.raised
                /\ returned' = b.returned
                /\ pc' = IF b.raised # None \/ b.returned # None THEN "done"
                         ELSE pc
    /\ UNCHANGED <<entry, po_number, filename, create_inventory, file, erp, po,
                   headers_map, value>>

\* create_payload, line 164, and, back in upload_file, lines 204-210: the PUT
\* of the payload and the answer's status.
create_payload_return ==
    /\ pc = "lines" /\ lineno = Len(file.lines)
    /\ pc' = "done"
    /\ LET payload == [items |-> items] IN
       IF entry = "create_payload"
       THEN returned' = Some(payload) /\ UNCHANGED <<calls, raised>>
       ELSE /\ calls' = Append(calls, Request("PUT", "purchasing/orders/id", payload))
            /\ \E status \in {HTTP_OK, 500} :
                 IF status = HTTP_OK
                 THEN returned' = Some("response.json") /\ UNCHANGED raised
                 ELSE /\ raised' = Some(HTTPException(status, "Failed to update PO"))
                      /\ UNCHANGED returned
    /\ UNCHANGED <<entry, po_number, filename, create_inventory, file, erp, po,
                   headers_map, lineno, line, items, value>>

Next ==
    \/ upload_file_validate
    \/ upload_file_find_po
    \/ upload_file_create_payload
    \/ create_payload_headers
    \/ create_payload_line
    \/ create_payload_return

Spec == Init /\ [][Next]_vars

\* --------------------------------------- process_line_item on its own

HeaderNames == {PART_NO, ORDER_QTY, UNIT_PRICE, DESCRIPTION}

\* Every header row of distinct recognised names, in every order, that
\* passes the validation of create_payload.
RowHeaders ==
    {h \in SeqsUpTo(HeaderNames, Cardinality(HeaderNames)) :
        /\ \A i, j \in 1..Len(h) : h[i] = h[j] => i = j
        /\ required_headers \subseteq {h[i] : i \in 1..Len(h)}}

Rows == SeqsUpTo(Cells, MaxCols)

\* A header map that create_payload has validated.  Without create_inventory
\* the ERP is not asked, and one ERP stands for all.
InitRow ==
    /\ entry = "process_line_item" /\ pc = "call"
    /\ po_number = <<>> /\ filename = <<>>
    /\ create_inventory \in BOOLEAN
    /\ erp \in IF create_inventory THEN ErpStates
               ELSE {[inventory |-> {}, post_status |-> HTTP_CREATED]}
    /\ \E h \in RowHeaders :
         /\ file = [empty |-> FALSE, headers |-> h, lines |-> <<>>]
         /\ headers_map = build_headers_map(h)
    /\ po = None /\ lineno = 0 /\ line = <<>> /\ items = <<>> /\ calls = <<>>
    /\ raised = None /\ returned = None /\ value = None

\* process_line_item(row, headers_map, create_inventory, vendor_no), for a
\* row that create_payload does not skip.
process_line_item_call ==
    /\ pc = "call" /\ entry = "process_line_item"
    /\ pc' = "done"
    /\ \E row \in {r \in Rows : any(r)} :
         LET r == process_line_item(row, headers_map, create_inventory, VendorNo, erp)
         IN  /\ line' = row
             /\ calls' = r.calls
             /\ raised' = r.raised
             /\ returned' = r.value
    /\ UNCHANGED <<entry, po_number, filename, create_inventory, file, erp, po,
                   headers_map, lineno, items, value>>

SpecRow == InitRow /\ [][process_line_item_call]_vars

\* ------------------------------------------- clean_numeric on its own

Alphabet == {"0", "1", "5", ".", "$", ",", "-", " "}

\* clean_numeric(value) for None and for every str of at most MaxLen characters.
InitClean ==
    /\ entry = "clean_numeric" /\ pc = "call"
    /\ value \in {None} \cup {Some(s) : s \in SeqsUpTo(Alphabet, MaxLen)}
    /\ po_number = <<>> /\ filename = <<>> /\ create_inventory = FALSE
    /\ file = EmptyFile
    /\ erp = [inventory |-> {}, post_status |-> HTTP_CREATED]
    /\ po = None /\ headers_map = <<>> /\ lineno = 0 /\ line = <<>>
    /\ items = <<>> /\ calls = <<>> /\ raised = None /\ returned = None

clean_numeric_call ==
    /\ pc = "call" /\ entry = "clean_numeric"
    /\ pc' = "done"
    /\ LET r == clean_numeric(value)
       IN  raised' = r.raised /\ returned' = r.value
    /\ UNCHANGED <<entry, po_number, filename, create_inventory, file, erp, po,
                   headers_map, lineno, line, items, calls, value>>

SpecClean == InitClean /\ [][clean_numeric_call]_vars

\* ================================================================ claims

IsHTTPException(r, code) ==
    /\ r # None
    /\ r[1].type = "HTTPException"
    /\ r[1].args.status_code = code

\* MissingColumnError: HTTPException(400, "Missing {header} column").
IsMissingColumnError(r) ==
    /\ IsHTTPException(r, 400)
    /\ r[1].args.detail.text = "Missing column"

\* InvalidQuantityError: HTTPException(400, "Error geting values for {part_no}: ...").
IsInvalidQuantityError(r) ==
    /\ IsHTTPException(r, 400)
    /\ r[1].args.detail.text = "Error geting values for"

\* InventoryCreationError: HTTPException(400, "Error creating {part_no}: ...").
IsInventoryCreationError(r) ==
    /\ IsHTTPException(r, 400)
    /\ r[1].args.detail.text = "Error creating"

HeaderNamesOf(f) == {upper(f.headers[i]) : i \in 1..Len(f.headers)}

\* The file has a header row, with the required headers or without one of them.
HeadersComplete(f) == ~ f.empty /\ required_headers \subseteq HeaderNamesOf(f)

HeadersLackRequired(f) ==
    ~ f.empty /\ ~ (required_headers \subseteq HeaderNamesOf(f))

FormValid == po_number # <<>> /\ filename # <<>>

Methods(rs, m) == SelectSeq(rs, LAMBDA r : r.method = m)

\* The column of header h in the header row hs (the last of that name), or 0.
ColumnOf(hs, h) ==
    IF \E i \in 1..Len(hs) : upper(hs[i]) = h
    THEN CHOOSE i \in 1..Len(hs) :
            upper(hs[i]) = h /\ \A j \in (i + 1)..Len(hs) : upper(hs[j]) # h
    ELSE 0

\* The cell of row under header h, trimmed; None when the header row has no
\* such column or the row is too short for it.
CellOf(hs, row, h) ==
    IF ColumnOf(hs, h) \in 1..Len(row) THEN Some(strip(row[ColumnOf(hs, h)]))
    ELSE None

HasDigit(s) == \E i \in 1..Len(s) : IsDigit(s[i])

\* The cell is read as a number: it holds a digit, and one point at most
\* among its digits and points.
Parseable(s) == HasDigit(s) /\ Cardinality({i \in 1..Len(s) : s[i] = "."}) <= 1

AllEmpty(ln) == \A i \in 1..Len(ln) : ln[i] = <<>>

AllBlank(ln) == \A i \in 1..Len(ln) : strip(ln[i]) = <<>>

\* ---- C1
\* C1: an upload (its form filled in) whose header row lacks PART NO or
\* ORDER QTY sends no request to the ERP at any time, and ends with
\* MissingColumnError.
C1_MissingColumnBeforeAnyCall ==
    (entry = "upload_file" /\ FormValid /\ HeadersLackRequired(file))
        => /\ calls = <<>>
           /\ pc = "done" => IsMissingColumnError(raised)

\* ---- C2
\* Every retained row of the file has a quantity cell that is read as a number.
QuantitiesParseable(f) ==
    \A k \in 1..Len(f.lines) :
        ~ AllEmpty(f.lines[k]) =>
            LET q == CellOf(f.headers, f.lines[k], ORDER_QTY)
            IN  q # None /\ Parseable(q[1])

\* C2: an upload whose PO is found and whose CSV has the required headers and
\* only parseable quantities ends having sent one PO lookup first, one PUT of
\* the payload last, and in between only item requests, two per row at most.
C2_UploadReachesUpdate ==
    (/\ entry = "upload_file" /\ pc = "done" /\ po # None
     /\ HeadersComplete(file) /\ QuantitiesParseable(file))
        => /\ Len(calls) >= 2
           /\ calls[1].resource = "purchasing/orders" /\ calls[1].method = "GET"
           /\ calls[Len(calls)].method = "PUT"
           /\ Len(Methods(calls, "PUT")) = 1
           /\ \A i \in 2..(Len(calls) - 1) : calls[i].resource = "inventory/items"
           /\ Len(calls) - 2 <= 2 * Len(file.lines)

\* ---- C3
\* The header validation fails, the header row was not found, or the
\* processing of a line read so far fails.
BuildFails ==
    \/ HeadersLackRequired(file)
    \/ file.empty /\ entry = "create_payload" /\ pc = "done"
    \/ \E k \in 1..lineno :
          /\ any(file.lines[k])
          /\ process_line_item(file.lines[k], build_headers_map(file.headers),
                               create_inventory, VendorNo, erp).raised # None

\* C3: once the header validation or a row has failed, nothing is returned,
\* no PUT is sent, no further line is read, and the invocation ends with an
\* exception.
C3_NoPartialSubmission ==
    (entry \in {"upload_file", "create_payload"} /\ BuildFails)
        => /\ returned = None
           /\ Methods(calls, "PUT") = <<>>
           /\ lineno >= 1 => (pc = "done" /\ raised # None)
           /\ pc = "done" => raised # None

\* A second row failed after a first one had given its item.
C3_Witness ==
    /\ entry = "create_payload" /\ pc = "done"
    /\ lineno = 2 /\ Len(items) = 1
    /\ IsInvalidQuantityError(raised) /\ returned = None

\* ---- C4
\* C4: every item of a payload that create_payload returns has a non-empty
\* partNo and a number as orderQty.
C4_ItemsHavePartNoAndQty ==
    (entry = "create_payload" /\ returned # None)
        => \A i \in 1..Len(returned[1].items) :
              /\ returned[1].items[i].inventory.partNo # <<>>
              /\ returned[1].items[i].orderQty \in Nat

\* ---- C5
\* C5: the item of a processed row has unitPrice exactly when there is a
\* UNIT PRICE column whose cell cleans to a number (zero included), has
\* description exactly when the trimmed DESCRIPTION cell is non-empty, and
\* always has warehouse, partNo and orderQty.
C5_OptionalFieldsIff ==
    (entry = "process_line_item" /\ pc = "done" /\ returned # None)
        => LET item  == returned[1]
               price == CellOf(file.headers, line, UNIT_PRICE)
               desc  == CellOf(file.headers, line, DESCRIPTION)
           IN  /\ "unitPrice" \in DOMAIN item
                    <=> (price # None /\ Parseable(price[1]))
               /\ "description" \in DOMAIN item
                    <=> (desc # None /\ desc[1] # <<>>)
               /\ {"inventory", "orderQty"} \subseteq DOMAIN item
               /\ DOMAIN item.inventory = {"whse", "partNo"}

\* ---- C6
\* Every column of the header row has its cell in the row, and the quantity
\* is read as a number: the row reaches the inventory logic.
RowReadable ==
    /\ \A i \in 1..Len(file.headers) : i <= Len(line)
    /\ Parseable(CellOf(file.headers, line, ORDER_QTY)[1])

RowPart == CellOf(file.headers, line, PART_NO)[1]

RowDescription ==
    IF CellOf(file.headers, line, DESCRIPTION) = None THEN <<>>
    ELSE CellOf(file.headers, line, DESCRIPTION)[1]

\* The flag is set and the ERP reports the row's part as not existing.
CreationWanted == create_inventory /\ upper(RowPart) \notin erp.inventory

\* C6: a creation request is sent exactly when the flag is set, the part does
\* not exist and the trimmed description is non-empty; with a blank
\* description none is sent and the item is still produced.
C6_CreationRequestIff ==
    (entry = "process_line_item" /\ pc = "done" /\ RowReadable)
        => /\ Methods(calls, "POST") # <<>>
                <=> (CreationWanted /\ RowDescription # <<>>)
           /\ (CreationWanted /\ RowDescription = <<>>)
                => (Methods(calls, "POST") = <<>> /\ returned # None)

\* ---- C7
\* C7: where a creation is due, an ERP that answers it with a status other
\* than 201 makes the row end with InventoryCreationError naming the part and
\* no item, and an ERP that answers 201 makes it end with the item and no error.
C7_CreationFailureSurfaced ==
    (/\ entry = "process_line_item" /\ pc = "done" /\ RowReadable
     /\ CreationWanted /\ RowDescription # <<>>)
        => IF erp.post_status # HTTP_CREATED
           THEN /\ IsInventoryCreationError(raised)
                /\ raised[1].args.detail.part_no = RowPart
                /\ returned = None
           ELSE raised = None /\ returned # None

\* ---- C8
\* C8: a row whose quantity cell is blank, missing or without a number ends
\* with the HTTP 400 of InvalidQuantityError, naming the row's part number,
\* whatever the column order and the row's length.
C8_BadQuantityIs400 ==
    (/\ entry = "process_line_item" /\ pc = "done"
     /\ LET q == CellOf(file.headers, line, ORDER_QTY)
        IN  q = None \/ ~ Parseable(q[1]))
        => /\ IsInvalidQuantityError(raised)
           /\ CellOf(file.headers, line, PART_NO) # None
                => raised[1].args.detail.part_no = RowPart

\* ---- C9
ItemRequestPart(r) == IF r.method = "POST" THEN upper(r.body.partNo) ELSE r.body

\* The lines read so far hold, for the lines left by skipping the lines
\* skip(_) picks, one item each in input order, and requests for those only.
OneItemPerKeptLine(skip(_)) ==
    LET kept    == SelectSeq(SubSeq(file.lines, 1, lineno), LAMBDA ln : ~ skip(ln))
        part(i) == CellOf(file.headers, kept[i], PART_NO)[1]
    IN  /\ (lineno >= 1 /\ skip(file.lines[lineno])) => raised = None
        /\ raised = None =>
             /\ Len(items) = Len(kept)
             /\ \A i \in 1..Len(kept) : items[i].inventory.partNo = part(i)
             /\ Methods(calls, "GET") =
                  IF create_inventory
                  THEN [i \in 1..Len(kept) |->
                           Request("GET", "inventory/items", upper(part(i)))]
                  ELSE <<>>
             /\ \A j \in 1..Len(calls) :
                  \E i \in 1..Len(kept) : ItemRequestPart(calls[j]) = upper(part(i))
             /\ pc = "done" => returned = Some([items |-> items])

InBuild ==
    /\ entry = "create_payload" /\ pc \in {"lines", "done"}
    /\ HeadersComplete(file)

\* C9 as stated: every line whose cells are all blank (empty once trimmed) is
\* skipped without error or request, and the payload holds one item per other
\* line, in input order.
C9_BlankLinesSkipped == InBuild => OneItemPerKeptLine(AllBlank)

\* C9 amended: every line whose cells are all the empty string (or that has
\* no cell) is skipped without error or request, and the payload holds one
\* item per other line, in input order.
C9_EmptyLinesSkipped == InBuild => OneItemPerKeptLine(AllEmpty)

\* A payload of one item returned for two lines, one of them of empty cells,
\* with the existence of the part asked.
C9_Witness ==
    /\ entry = "create_payload" /\ pc = "done" /\ returned # None
    /\ lineno = 2 /\ Len(items) = 1 /\ Len(calls) = 1
    /\ \E k \in 1..2 : file.lines[k] = <<E, E>>

\* ---- C10
RECURSIVE SumTo(_, _)
SumTo(f, n) == IF n = 0 THEN 0 ELSE f[n] + SumTo(f, n - 1)

\* The value of a decimal numeral, digit by digit: the digit at i counts
\* 10^(number of digit places between i and the point), scaled by 10^Places.
NumericValue(s) ==
    LET dot == IF \E i \in 1..Len(s) : s[i] = "."
               THEN CHOOSE i \in 1..Len(s) : s[i] = "." ELSE Len(s) + 1
        term == [i \in 1..Len(s) |->
                    IF ~ IsDigit(s[i]) THEN 0
                    ELSE IF i < dot THEN DigitVal[s[i]] * Pow10(Places + dot - 1 - i)
                    ELSE DigitVal[s[i]] * Pow10(Places + dot - i)]
    IN  SumTo(term, Len(s))

DigitsAndOnePoint(s) ==
    /\ \A i \in 1..Len(s) : IsDigit(s[i]) \/ s[i] = "."
    /\ Parseable(s)

\* C10: clean_numeric raises nothing; of a string of digits with one point at
\* most it returns the value; of None, of a string without digit and of a
\* string with several points it returns None.
C10_CleanNumeric ==
    (entry = "clean_numeric" /\ pc = "done")
        => /\ raised = None
           /\ (value # None /\ DigitsAndOnePoint(value[1]))
                => returned = Some(NumericValue(value[1]))
           /\ (value = None \/ ~ HasDigit(value[1])) => returned = None
           /\ (value # None /\ ~ Parseable(value[1])) => returned = None

\* "1.5" cleaned to one and a half.
C10_Witness ==
    /\ entry = "clean_numeric" /\ pc = "done"
    /\ value = Some(<<"1", ".", "5">>)
    /\ returned = Some(15 * Pow10(Places - 1))

====
